---------------------------- MODULE Spec2Model ----------------------------
(***************************************************************************)
(* Model of the two stateful pieces of parallel_api:                       *)
(*   - the in-memory task dispatch registry of fastapi_app.py              *)
(*     (dispatch_task, get_task_status, cancel_task over _task_store),     *)
(*     with every request an independently scheduled coroutine on one      *)
(*     event loop;                                                         *)
(*   - the polling loop ParallelClient.wait_for_task_run of                *)
(*     clients/async_client.py.                                            *)
(* Spec is the registry, WaitSpec the waiter, LiveWaitSpec the waiter      *)
(* with the fairness of a running event loop.                              *)
(***************************************************************************)
EXTENDS Integers, Sequences, FiniteSets, TLC

(***************************************************************************)
(* Bounds of the model.                                                    *)
(***************************************************************************)
\* number of HTTP requests one behaviour of the registry sends
MaxReq == 3
\* last value of the wall clock the registry's timestamps are read from
MaxClock == 1
\* largest timeout passed to wait_for_task_run (the smallest is -1)
MaxTimeout == 3
\* largest poll_interval passed to wait_for_task_run (the smallest is 0)
MaxPoll == 3
\* longest time one status fetch takes (the shortest is 1: time passes)
MaxFetchTime == 2
\* longest time asyncio.sleep oversleeps
MaxLate == 1
\* value at which the waiter's wall clock stops counting
MaxWall == 24
\* value at which the counters of fetches and sleeps stop counting
MaxCount == 8
MaxPolls == 2
MaxPairClock == 4
MaxPairTimeout == 2
MaxPairPoll == 2

(***************************************************************************)
(* Python values.                                                          *)
(***************************************************************************)
\* Optional[T]: None is the empty tuple, a present value x is <<x>>
None == <<>>

Some(x) == <<x>>

\* datetime.now(UTC).isoformat(): the text of the instant t, never None
isoformat(t) == Some(t)

\* truth value of an Optional[str]: None and "" are falsy
Truthy(s) == s # None /\ s # Some("")

(***************************************************************************)
(* Inputs of the registry's requests.                                      *)
(***************************************************************************)
\* identifiers callers invent
ClientIds == {"a"}

\* the values str(uuid.uuid4()) yields, in the order of the calls; uuid4
\* draws 122 random bits, modelled as never repeating and never guessed
UuidPool == <<"u1", "u2", "u3", "u4", "u5", "u6">>

Projects == {"demo"}

Descriptions == {"do X"}

\* priority: Field(ge=1, le=5), max_turns: Field(ge=1, le=50); the body is
\* validated before the handler runs
Priorities == {3}

Turns == {10}

TerminalStatuses == {"completed", "failed", "cancelled"}

VARIABLES
    task_store,   \* _task_store: task_id -> task dict
    now,          \* the last instant read from the wall clock
    uuids,        \* number of uuid4() calls made so far
    pc,           \* per request: position of its coroutine
    req,          \* per request: what was asked
    resp,         \* per request: the HTTP response
    running,      \* the coroutine that holds the event loop mid-handler, or 0
    inv,          \* per request: what the caller saw when it sent the request
    hist,         \* requests in the order their handlers took effect
    seq_store,    \* the registry of the sequential reference execution
    seq_resp,     \* per request: the response of the sequential reference
    wrote         \* per request: the task dict its handler stored, or None

regVars == <<task_store, now, uuids, pc, req, resp, running, inv, hist,
             seq_store, seq_resp, wrote>>

VARIABLES
    wpc,            \* position of the wait_for_task_run coroutine
    poll_interval,  \* its argument poll_interval
    timeout,        \* its argument timeout
    wall,           \* the wall clock time.time() reads
    start,          \* its local start
    run,            \* its local run: the TaskRun last fetched
    outcome,        \* what the call ended with: a TaskRun or an exception
    fetches,        \* number of get_task_run calls made
    actives,        \* number of fetches that returned an active run
    checks,         \* number of deadline tests made
    sleeps,         \* number of asyncio.sleep calls completed
    slept,          \* the delays passed to asyncio.sleep
    fetched,        \* what the last get_task_run call ended with
    sent            \* the HTTP requests the wait has sent to the remote

waitVars == <<wpc, poll_interval, timeout, wall, start, run, outcome, fetches,
              actives, checks, sleeps, slept, fetched, sent>>

VARIABLES
    front,                \* who makes the call: a REST route, a tool, a caller
    cap,                  \* the route, tool or client method called
    apikey,               \* settings.parallel_apikey / the api_key argument
    wait_for_completion,  \* the flag of the task-run route and tool
    cpc,                  \* position of the call
    _client,              \* ParallelClient._client
    method,               \* the client method the call is about to make
    net,                  \* the HTTP requests sent to the remote, in order
    response,             \* the last HTTP response of the remote
    result,               \* what the last client method ended with
    trun,                 \* the local run of the task flows
    polls,                \* get_task_run calls made by wait_for_task_run
    reply,                \* what the caller of the front end receives
    match_limit,          \* the match_limit argument of a findall creation
    conns,                \* the httpx clients opened and not yet closed
    after                 \* how a client method called after the session ends

callVars == <<front, cap, apikey, wait_for_completion, cpc, _client, method,
              net, response, result, trun, polls, reply, match_limit, conns,
              after>>

VARIABLES
    dpc,        \* position of the serialization of one request
    request,    \* the request model and the keyword arguments it is built from
    instance,   \* the fields of the model instance
    json        \* the JSON object passed to httpx as json=

dumpVars == <<dpc, request, instance, json>>

VARIABLES
    clock,       \* the wall clock both waits read with time.time()
    remote_run,  \* the run as the remote reports it to a get_task_run
    waiters      \* per concurrent wait_for_task_run call: its arguments,
                 \* locals, position and outcome

pairVars == <<clock, remote_run, waiters>>

vars == <<regVars, waitVars, callVars, dumpVars, pairVars>>

Reqs == 1..MaxReq

NoReq == [op |-> "none"]

NoResp == [status_code |-> 0]

(***************************************************************************)
(* Responses.                                                              *)
(***************************************************************************)
_status_to_error_type(status_code) ==
    CASE status_code = 400 -> "invalid_request_error"
      [] status_code = 401 -> "authentication_error"
      [] status_code = 403 -> "permission_error"
      [] status_code = 404 -> "not_found_error"
      [] status_code = 422 -> "invalid_request_error"
      [] status_code = 429 -> "rate_limit_error"
      [] status_code = 500 -> "api_error"
      [] status_code = 502 -> "api_error"
      [] status_code = 503 -> "overloaded_error"
      [] OTHER -> "api_error"

\* APIException raised by a handler, as structured_exception_handler sends it
APIException(status_code, param, code) ==
    [status_code |-> status_code,
     error |-> [type |-> _status_to_error_type(status_code),
                param |-> param, code |-> code]]

\* TaskStatusResponse(**task): the fields of the response model only
TaskStatusResponse(task) ==
    [status_code |-> 200,
     body |-> [task_id |-> task.task_id, status |-> task.status,
               project |-> task.project, created_at |-> task.created_at,
               started_at |-> task.started_at,
               completed_at |-> task.completed_at,
               result |-> task.result, error |-> task.error]]

(***************************************************************************)
(* The handlers, as functions of the registry.                             *)
(***************************************************************************)
\* _task_store.get(task_id)
StoreGet(store, task_id) ==
    IF task_id \in DOMAIN store THEN Some(store[task_id]) ELSE None

\* StorePut as _task_store.setdefault(task_id, task): the first write stays
StorePutIfAbsent(store, task_id, task) ==
    [k \in DOMAIN store \cup {task_id} |->
        IF k \in DOMAIN store THEN store[k] ELSE task]

\* _task_store[task_id] = task
StorePut(store, task_id, task) ==
    [k \in DOMAIN store \cup {task_id} |->
        IF k = task_id THEN task ELSE store[k]]

\* DispatchId with the supplied identifier ignored
DispatchIdAlwaysGenerated(body, n) == UuidPool[n + 1]

\* task_id = body.task_id or str(uuid.uuid4())
DispatchId(body, n) ==
    IF Truthy(body.task_id) THEN body.task_id[1] ELSE UuidPool[n + 1]

\* NewTask with the task started as it is dispatched
NewTaskStarted(body, task_id, t) ==
    [task_id |-> task_id, status |-> "running", project |-> body.project,
     task_description |-> body.task_description, priority |-> body.priority,
     max_turns |-> body.max_turns, created_at |-> isoformat(t),
     started_at |-> isoformat(t), completed_at |-> None, result |-> None,
     error |-> None]

\* the task record dispatch_task builds
NewTask(body, task_id, t) ==
    [task_id |-> task_id, status |-> "pending", project |-> body.project,
     task_description |-> body.task_description, priority |-> body.priority,
     max_turns |-> body.max_turns, created_at |-> isoformat(t),
     started_at |-> None, completed_at |-> None, result |-> None,
     error |-> None]

\* DispatchTask with the registry rebound to a dict holding the new task only
DispatchTaskFresh(store, body, n, t) ==
    LET task_id == DispatchId(body, n)
        task == NewTask(body, task_id, t)
    IN [store |-> StorePut(<<>>, task_id, task),
        resp |-> TaskStatusResponse(task)]

\* dispatch_task: the registry and the response it leaves
DispatchTask(store, body, n, t) ==
    LET task_id == DispatchId(body, n)
        task == NewTask(body, task_id, t)
    IN [store |-> StorePut(store, task_id, task),
        resp |-> TaskStatusResponse(task)]

\* get_task_status
GetTaskStatus(store, task_id) ==
    LET task == StoreGet(store, task_id)
    IN IF task = None
       THEN [store |-> store,
             resp |-> APIException(404, Some("task_id"), Some("task_not_found"))]
       ELSE [store |-> store, resp |-> TaskStatusResponse(task[1])]

\* CancelCheck without the test of the task's status
CancelCheckNoStateTest(store, task_id) ==
    IF StoreGet(store, task_id) = None
    THEN Some(APIException(404, Some("task_id"), Some("task_not_found")))
    ELSE None

\* CancelCheck with one raise statement for both failures
CancelCheckUnknownAsInvalid(store, task_id) ==
    LET task == StoreGet(store, task_id)
    IN IF task = None \/ task[1].status \in TerminalStatuses
       THEN Some(APIException(400, Some("task_id"),
                              Some("invalid_task_state")))
       ELSE None

\* cancel_task up to its two raise statements: the exception raised, or None
CancelCheck(store, task_id) ==
    LET task == StoreGet(store, task_id)
    IN IF task = None
       THEN Some(APIException(404, Some("task_id"), Some("task_not_found")))
       ELSE IF task[1].status \in TerminalStatuses
            THEN Some(APIException(400, Some("task_id"),
                                   Some("invalid_task_state")))
            ELSE None

\* Cancelled without the assignment of completed_at
CancelledUnstamped(task, t) == [task EXCEPT !.status = "cancelled"]

\* task["status"] = "cancelled"; task["completed_at"] = the instant t
Cancelled(task, t) ==
    [task EXCEPT !.status = "cancelled", !.completed_at = isoformat(t)]

\* CancelWrite ending with del _task_store[task_id]
CancelWriteDeletes(store, task_id, t) ==
    [store |-> [k \in DOMAIN store \ {task_id} |-> store[k]],
     resp |-> [status_code |-> 200,
               body |-> [cancelled |-> TRUE, task_id |-> task_id,
                         status |-> "cancelled"]]]

\* cancel_task after the checks: the two assignments and the returned dict
CancelWrite(store, task_id, t) ==
    LET task == Cancelled(store[task_id], t)
    IN [store |-> StorePut(store, task_id, task),
        resp |-> [status_code |-> 200,
                  body |-> [cancelled |-> TRUE, task_id |-> task_id,
                            status |-> task.status]]]

\* cancel_task run from entry to exit with nothing in between
CancelTask(store, task_id, t) ==
    LET raised == CancelCheck(store, task_id)
    IN IF raised # None
       THEN [store |-> store, resp |-> raised[1]]
       ELSE CancelWrite(store, task_id, t)

\* AwaitPoints with an await between cancel_task's checks and its writes
AwaitInCancel(handler) ==
    IF handler = "cancel" THEN {"cancel_write"} ELSE {}

\* AwaitPoints with every handler awaiting before it writes
AwaitBeforeWrites(handler) == {"cancel_write", "dispatch_write"}

\* the places where a handler awaits, handing the event loop to other
\* coroutines: the three registry handlers contain no await
AwaitPoints(handler) == {}

(***************************************************************************)
(* The registry as a state machine.                                        *)
(***************************************************************************)
RegInit ==
    /\ task_store = <<>>
    /\ now = 0
    /\ uuids = 0
    /\ pc = [r \in Reqs |-> "idle"]
    /\ req = [r \in Reqs |-> NoReq]
    /\ resp = [r \in Reqs |-> NoResp]
    /\ running = 0
    /\ inv = [r \in Reqs |-> [at |-> 0, status |-> "none"]]
    /\ hist = <<>>
    /\ seq_store = <<>>
    /\ seq_resp = [r \in Reqs |-> NoResp]
    /\ wrote = [r \in Reqs |-> None]

\* identifiers a caller can name: invented ones and those handed out
KnownIds == ClientIds \cup {UuidPool[i] : i \in 1..uuids}

\* bodies of POST /tasks/dispatch: task_id absent, empty or invented
DispatchBodies ==
    [task_id : {None, Some("")} \cup {Some(i) : i \in ClientIds},
     project : Projects, task_description : Descriptions,
     priority : Priorities, max_turns : Turns]

StatusOf(store, task_id) ==
    IF task_id \in DOMAIN store THEN store[task_id].status ELSE "absent"

\* a caller sends request r; requests are numbered in the order sent
Send(r, q, id) ==
    /\ pc[r] = "idle"
    /\ \A s \in Reqs : s < r => pc[s] # "idle"
    /\ pc' = [pc EXCEPT ![r] = q.op]
    /\ req' = [req EXCEPT ![r] = q]
    /\ inv' = [inv EXCEPT ![r] = [at |-> Len(hist),
                                  status |-> StatusOf(task_store, id)]]
    /\ UNCHANGED <<task_store, now, uuids, resp, running, hist, seq_store,
                   seq_resp, wrote, waitVars, callVars, dumpVars, pairVars>>

SendDispatch(r) ==
    \E body \in DispatchBodies :
        Send(r, [op |-> "dispatch", body |-> body],
             IF Truthy(body.task_id) THEN body.task_id[1] ELSE "")

SendGetStatus(r) ==
    \E id \in KnownIds : Send(r, [op |-> "get_status", task_id |-> id], id)

SendCancel(r) ==
    \E id \in KnownIds : Send(r, [op |-> "cancel", task_id |-> id], id)

\* the handler of r has taken effect with response out: r ends, and the
\* sequential reference runs the same request in one piece
Finish(r, out, ref) ==
    /\ pc' = [pc EXCEPT ![r] = "done"]
    /\ resp' = [resp EXCEPT ![r] = out]
    /\ hist' = Append(hist, r)
    /\ seq_store' = ref.store
    /\ seq_resp' = [seq_resp EXCEPT ![r] = ref.resp]

\* the instants a read of the wall clock can yield: the instant of the last
\* read or the next one (timestamps are stored, never compared or subtracted)
ClockReads == {t \in {now, now + 1} : t <= MaxClock}

\* POST /tasks/dispatch; datetime.now(UTC) reads the instant t
DoDispatch(r) ==
    /\ pc[r] = "dispatch"
    /\ running = 0
    /\ \E t \in ClockReads :
         LET n == uuids
             out == DispatchTask(task_store, req[r].body, n, t)
         IN /\ task_store' = out.store
            /\ now' = t
            /\ uuids' = IF Truthy(req[r].body.task_id)
                         THEN uuids ELSE uuids + 1
            /\ Finish(r, out.resp,
                      DispatchTask(seq_store, req[r].body, n, t))
            /\ wrote' = [wrote EXCEPT ![r] =
                            Some(NewTask(req[r].body,
                                         DispatchId(req[r].body, n), t))]
    /\ UNCHANGED <<req, running, inv, waitVars, callVars, dumpVars, pairVars>>

\* GET /tasks/{task_id}/status
DoGetStatus(r) ==
    /\ pc[r] = "get_status"
    /\ running = 0
    /\ LET out == GetTaskStatus(task_store, req[r].task_id)
       IN /\ task_store' = out.store
          /\ Finish(r, out.resp, GetTaskStatus(seq_store, req[r].task_id))
    /\ UNCHANGED <<now, uuids, req, running, inv, wrote, waitVars, callVars,
                   dumpVars, pairVars>>

\* POST /tasks/{task_id}/cancel, from entry to the end of the two checks
DoCancelCheck(r) ==
    /\ pc[r] = "cancel"
    /\ running = 0
    /\ LET raised == CancelCheck(task_store, req[r].task_id)
       IN IF raised # None
          THEN /\ Finish(r, raised[1],
                         CancelTask(seq_store, req[r].task_id, now))
               /\ UNCHANGED running
          ELSE /\ pc' = [pc EXCEPT ![r] = "cancel_write"]
               /\ running' = IF "cancel_write" \in AwaitPoints("cancel")
                             THEN 0 ELSE r
               /\ UNCHANGED <<resp, hist, seq_store, seq_resp>>
    /\ UNCHANGED <<task_store, now, uuids, req, inv, wrote, waitVars, callVars,
                   dumpVars, pairVars>>

\* POST /tasks/{task_id}/cancel, the assignments and the return;
\* datetime.now(UTC) reads the instant t
DoCancelWrite(r) ==
    /\ pc[r] = "cancel_write"
    /\ running \in {0, r}
    /\ \E t \in ClockReads :
         LET out == CancelWrite(task_store, req[r].task_id, t)
         IN /\ task_store' = out.store
            /\ now' = t
            /\ Finish(r, out.resp,
                      CancelTask(seq_store, req[r].task_id, t))
            /\ wrote' = [wrote EXCEPT ![r] =
                            Some(Cancelled(task_store[req[r].task_id], t))]
    /\ running' = 0
    /\ UNCHANGED <<uuids, req, inv, waitVars, callVars, dumpVars, pairVars>>

RegNext ==
    \/ \E r \in Reqs : SendDispatch(r)
    \/ \E r \in Reqs : SendGetStatus(r)
    \/ \E r \in Reqs : SendCancel(r)
    \/ \E r \in Reqs : DoDispatch(r)
    \/ \E r \in Reqs : DoGetStatus(r)
    \/ \E r \in Reqs : DoCancelCheck(r)
    \/ \E r \in Reqs : DoCancelWrite(r)

(***************************************************************************)
(* Properties of the registry.                                             *)
(***************************************************************************)
\* request r's handler takes effect in this step
Finishes(r) == pc[r] # "done" /\ pc'[r] = "done"

\* position of a finished request in hist
Pos(r) == CHOOSE i \in 1..Len(hist) : hist[i] = r

Done(r) == pc[r] = "done"

\* the identifier a finished request read or wrote
Target(r) ==
    IF req[r].op = "dispatch" THEN resp[r].body.task_id ELSE req[r].task_id

NotFound == APIException(404, Some("task_id"), Some("task_not_found"))

InvalidState == APIException(400, Some("task_id"), Some("invalid_task_state"))

StatusEdges == {<<"pending", "running">>, <<"pending", "cancelled">>,
                <<"running", "completed">>, <<"running", "failed">>,
                <<"running", "cancelled">>}

\* C1: once the status stored under an identifier is completed, failed or
\* cancelled, no step (a Dispatch naming that identifier included) changes
\* the status stored under it.
C1_TerminalStatusIsFinal ==
    [][\A id \in DOMAIN task_store :
         task_store[id].status \in TerminalStatuses
            => /\ id \in DOMAIN task_store'
               /\ task_store'[id].status = task_store[id].status]_vars

\* C2: every step that changes the status stored under an identifier
\* follows one of the edges pending->running, pending->cancelled,
\* running->completed, running->failed, running->cancelled.
C2_StatusFollowsEdges ==
    [][\A id \in DOMAIN task_store \cap DOMAIN task_store' :
         task_store'[id].status # task_store[id].status
            => <<task_store[id].status, task_store'[id].status>>
                  \in StatusEdges]_vars

\* what the step that ends Cancel r must do, by the status it found
C3_CancelStep(r) ==
    LET id == req[r].task_id
    IN /\ StatusOf(task_store, id) = "pending"
          => /\ resp'[r].status_code = 200
             /\ resp'[r].body = [cancelled |-> TRUE, task_id |-> id,
                                 status |-> "cancelled"]
             /\ task_store'[id].status = "cancelled"
             /\ task_store'[id].completed_at # None
       /\ StatusOf(task_store, id) = "cancelled"
          => /\ resp'[r] = InvalidState
             /\ resp'[r].status_code = 400
             /\ resp'[r].error.code = Some("invalid_task_state")
             /\ task_store'[id] = task_store[id]

\* C3: a Cancel that finds its record pending succeeds, stores status
\* cancelled and a non-null completion timestamp; a Cancel that finds the
\* record cancelled by an earlier Cancel fails with HTTP 400
\* invalid_task_state and leaves the record as it was.
C3_CancelPendingThenAgain ==
    [][\A r \in Reqs :
         Finishes(r) /\ req[r].op = "cancel" => C3_CancelStep(r)]_vars

\* C3 witness: a Cancel succeeded on a pending record and a later Cancel
\* of the same identifier, no Dispatch in between, was refused.
C3_Witness ==
    \E r1, r2 \in Reqs :
        /\ Done(r1) /\ Done(r2)
        /\ req[r1].op = "cancel" /\ req[r2].op = "cancel"
        /\ req[r1].task_id = req[r2].task_id
        /\ Pos(r2) = Pos(r1) + 1
        /\ resp[r1].status_code = 200
        /\ resp[r2] = InvalidState
        /\ task_store[req[r1].task_id].completed_at # None

\* C4 as stated: every Dispatch returns status pending and a non-empty
\* identifier equal to the supplied one whenever one was supplied, the
\* empty string included.
C4_SuppliedIdAlwaysKept ==
    \A r \in Reqs :
        Done(r) /\ req[r].op = "dispatch"
           => /\ resp[r].body.status = "pending"
              /\ resp[r].body.task_id # ""
              /\ req[r].body.task_id # None
                    => resp[r].body.task_id = req[r].body.task_id[1]

\* what the step that ends Dispatch r must do
C4_DispatchStep(r) ==
    LET given == req[r].body.task_id
        out == resp'[r]
    IN /\ out.status_code = 200
       /\ out.body.status = "pending"
       /\ out.body.task_id # ""
       /\ Truthy(given) => out.body.task_id = given[1]
       /\ ~Truthy(given)
             => /\ out.body.task_id \in {UuidPool[i] : i \in 1..uuids'}
                /\ out.body.task_id \notin DOMAIN task_store
       /\ out.body.task_id \in DOMAIN task_store'
       /\ task_store'[out.body.task_id].status = "pending"

\* what the step that ends GetStatus g must do when the last request
\* handled was the Dispatch that returned the identifier g names
C4_GetAfterDispatchStep(g) ==
    \A d \in Reqs :
        /\ Len(hist) > 0 /\ hist[Len(hist)] = d
        /\ req[d].op = "dispatch"
        /\ req[g].task_id = resp[d].body.task_id
        => /\ resp'[g].status_code = 200
           /\ resp'[g].body.task_id = resp[d].body.task_id
           /\ resp'[g].body.status = "pending"
           /\ resp'[g].body = resp[d].body

\* C4 amended: every Dispatch returns status pending and a non-empty
\* identifier; it equals the supplied identifier when a non-empty one was
\* supplied, and is a generated one when none or the empty string was
\* supplied; a GetStatus of the returned identifier that runs right after
\* the Dispatch returns the same identifier with status pending.
C4_DispatchThenGetStatus ==
    [][\A r \in Reqs :
         /\ Finishes(r) /\ req[r].op = "dispatch" => C4_DispatchStep(r)
         /\ Finishes(r) /\ req[r].op = "get_status"
               => C4_GetAfterDispatchStep(r)]_vars

\* C4 witness: a Dispatch that supplied the empty string got a generated
\* identifier, and the GetStatus right after it found the pending record.
C4_Witness ==
    \E d, g \in Reqs :
        /\ Done(d) /\ Done(g)
        /\ req[d].op = "dispatch" /\ req[d].body.task_id = Some("")
        /\ req[g].op = "get_status"
        /\ req[g].task_id = resp[d].body.task_id
        /\ Pos(g) = Pos(d) + 1
        /\ resp[g].status_code = 200
        /\ resp[g].body.status = "pending"

\* C5: GetStatus and Cancel of an identifier that is no key of the
\* registry fail with HTTP 404, code task_not_found, and leave the registry
\* as it was.
C5_UnknownIdIsNotFound ==
    [][\A r \in Reqs :
         /\ Finishes(r)
         /\ req[r].op \in {"get_status", "cancel"}
         /\ req[r].task_id \notin DOMAIN task_store
         => /\ resp'[r] = NotFound
            /\ resp'[r].status_code = 404
            /\ resp'[r].error.code = Some("task_not_found")
            /\ resp'[r].error.type = "not_found_error"
            /\ task_store' = task_store]_vars

\* C5 witness: a GetStatus and a Cancel of unknown identifiers have both
\* been refused while the registry held a record.
C5_Witness ==
    \E g, c \in Reqs :
        /\ Done(g) /\ Done(c)
        /\ req[g].op = "get_status" /\ req[c].op = "cancel"
        /\ resp[g] = NotFound /\ resp[c] = NotFound
        /\ DOMAIN task_store # {}

\* a finished request that wrote, or tried to write, the record of id
Touches(r, id) == req[r].op \in {"dispatch", "cancel"} /\ Target(r) = id

\* two Cancel requests of one identifier, both sent while its record was
\* pending, each sent before the other was handled, and nothing else
\* handled on that identifier from then until both were handled
ConcurrentCancels(r1, r2) ==
    /\ r1 # r2
    /\ Done(r1) /\ Done(r2)
    /\ req[r1].op = "cancel" /\ req[r2].op = "cancel"
    /\ req[r1].task_id = req[r2].task_id
    /\ inv[r1].status = "pending" /\ inv[r2].status = "pending"
    /\ inv[r1].at < Pos(r2) /\ inv[r2].at < Pos(r1)
    /\ \A i \in 1..Len(hist) :
          /\ i > inv[r1].at /\ i > inv[r2].at
          /\ i < Pos(r1) \/ i < Pos(r2)
          => hist[i] \in {r1, r2} \/ ~Touches(hist[i], req[r1].task_id)

\* while a Cancel is between its checks and its writes, no other handler
\* runs: the next handler step is that Cancel's write
CancelNotInterleaved ==
    \A r \in Reqs :
        pc[r] = "cancel_write"
           => /\ task_store' # task_store => Finishes(r)
              /\ \A s \in Reqs \ {r} :
                    pc[s] \in {"dispatch", "get_status", "cancel",
                               "cancel_write"} => pc'[s] = pc[s]

\* C6: of two concurrent Cancel requests of one pending identifier exactly
\* one succeeds and the other fails with invalid_task_state; the checks and
\* writes of one Cancel are never interleaved with another handler's.
C6_ConcurrentCancelsExactlyOne ==
    /\ [](\A r1, r2 \in Reqs :
            ConcurrentCancels(r1, r2)
               => \/ resp[r1].status_code = 200 /\ resp[r2] = InvalidState
                  \/ resp[r2].status_code = 200 /\ resp[r1] = InvalidState)
    /\ [](Cardinality({r \in Reqs : pc[r] = "cancel_write"}) <= 1)
    /\ [][CancelNotInterleaved]_vars

\* C6 witness: two Cancel requests were in flight together on a pending
\* record and both have been answered.
C6_Witness == \E r1, r2 \in Reqs : ConcurrentCancels(r1, r2)

\* C7: every history is linearizable: each response is the one the
\* sequential registry gives when the requests run one at a time in the
\* order hist, which keeps the order of requests that did not overlap, and
\* between handlers the registry equals the sequential one.
C7_Linearizable ==
    /\ \A r \in Reqs : Done(r) => resp[r] = seq_resp[r]
    /\ running = 0 /\ (\A r \in Reqs : pc[r] # "cancel_write")
          => task_store = seq_store
    /\ \A r1, r2 \in Reqs :
          Done(r1) /\ Done(r2) /\ r1 # r2 /\ Pos(r1) <= inv[r2].at
             => Pos(r1) < Pos(r2)
    /\ running # 0 => pc[running] = "cancel_write"

\* C7 witness: a Dispatch, a Cancel and a GetStatus of one identifier were
\* all in flight together and all have been answered.
C7_Witness ==
    \E d, c, g \in Reqs :
        /\ Done(d) /\ Done(c) /\ Done(g)
        /\ req[d].op = "dispatch" /\ req[c].op = "cancel"
        /\ req[g].op = "get_status"
        /\ Target(d) = Target(c) /\ Target(c) = Target(g)
        /\ \A x, y \in {d, c, g} : inv[x].at < Pos(y)
        /\ resp[c].status_code = 200

\* a GetStatus of identifier id has succeeded
StatusSeen(id) ==
    \E e \in Reqs : /\ Done(e) /\ req[e].op = "get_status"
                    /\ req[e].task_id = id /\ resp[e].status_code = 200

\* C24: no step removes an identifier from the registry, and a GetStatus
\* of an identifier for which an earlier GetStatus succeeded does not end
\* with NotFound.
C24_RecordsNeverRemoved ==
    [][/\ DOMAIN task_store \subseteq DOMAIN task_store'
       /\ \A g \in Reqs :
            /\ Finishes(g) /\ req[g].op = "get_status"
            /\ StatusSeen(req[g].task_id)
            => resp'[g].status_code = 200]_vars

\* C24 witness: a GetStatus of an identifier succeeded, and a GetStatus of
\* the same identifier handled later succeeded again.
C24_Witness ==
    \E e, g \in Reqs :
        /\ Done(e) /\ Done(g) /\ Pos(e) < Pos(g)
        /\ req[e].op = "get_status" /\ req[g].op = "get_status"
        /\ req[e].task_id = req[g].task_id
        /\ resp[e].status_code = 200 /\ resp[g].status_code = 200
        /\ req[g].task_id \in DOMAIN task_store

\* the finished requests whose handler stored a task dict under id
Writers(id) == {w \in Reqs : Done(w) /\ wrote[w] # None /\ Target(w) = id}

\* the last of them to take effect
LastWriter(id) ==
    CHOOSE w \in Writers(id) : \A v \in Writers(id) : Pos(v) <= Pos(w)

\* what the step that ends GetStatus g must return
C25_GetStatusStep(g) ==
    LET id == req[g].task_id
    IN IF Writers(id) = {}
       THEN resp'[g] = NotFound
       ELSE LET task == wrote[LastWriter(id)][1]
            IN /\ resp'[g].status_code = 200
               /\ resp'[g].body =
                    [task_id |-> task.task_id, status |-> task.status,
                     project |-> task.project,
                     created_at |-> task.created_at,
                     started_at |-> task.started_at,
                     completed_at |-> task.completed_at,
                     result |-> task.result, error |-> task.error]

\* C25: a GetStatus returns the record stored by the last Dispatch or
\* successful Cancel of its identifier to take effect; a request stores a
\* record exactly when it is a Dispatch or a Cancel that succeeds, and a
\* failed Cancel or a GetStatus leaves the registry as it was.
C25_LastWriteWins ==
    [][\A r \in Reqs :
         Finishes(r)
         => /\ req[r].op = "get_status" => C25_GetStatusStep(r)
            /\ wrote'[r] # None
                  <=> /\ req[r].op \in {"dispatch", "cancel"}
                      /\ resp'[r].status_code = 200
            /\ wrote'[r] = None => task_store' = task_store]_vars

\* C25 witness: two writes of one identifier took effect, the second
\* storing a record other than the first's, and a GetStatus handled after
\* both returned the status stored by the second.
C25_Witness ==
    \E w1, w2, g \in Reqs :
        /\ Done(w1) /\ Done(w2) /\ Done(g)
        /\ Pos(w1) < Pos(w2) /\ Pos(w2) < Pos(g)
        /\ wrote[w1] # None /\ wrote[w2] # None
        /\ wrote[w1] # wrote[w2]
        /\ Target(w1) = Target(w2) /\ req[g].op = "get_status"
        /\ req[g].task_id = Target(w2)
        /\ resp[g].status_code = 200
        /\ resp[g].body.status = wrote[w2][1].status
        /\ resp[g].body.completed_at = wrote[w2][1].completed_at
        /\ resp[g].body.created_at = wrote[w2][1].created_at

\* the responses of the finished GetStatus requests that found a record
StatusBodies ==
    {resp[g].body : g \in {r \in Reqs : /\ Done(r) /\ req[r].op = "get_status"
                                        /\ resp[r].status_code = 200}}

\* C28: every stored record, and every record a GetStatus returned, has
\* status pending or cancelled and started_at, result and error null.
C28_OnlyPendingOrCancelled ==
    /\ \A id \in DOMAIN task_store :
        /\ task_store[id].status \in {"pending", "cancelled"}
        /\ task_store[id].started_at = None
        /\ task_store[id].result = None
        /\ task_store[id].error = None
    /\ \A b \in StatusBodies :
        /\ b.status \in {"pending", "cancelled"}
        /\ b.started_at = None /\ b.result = None /\ b.error = None

\* C28 witness: the registry holds a pending record and a cancelled one.
C28_Witness ==
    \E i, j \in DOMAIN task_store :
        /\ task_store[i].status = "pending"
        /\ task_store[j].status = "cancelled"

\* C29: a stored record has a completion timestamp exactly when its status
\* is cancelled and is stored under its own task_id; a record a GetStatus
\* returned has a completion timestamp exactly when its status is cancelled
\* and carries the identifier asked for.
C29_CompletedIffCancelled ==
    /\ \A id \in DOMAIN task_store :
        /\ task_store[id].completed_at # None
              <=> task_store[id].status = "cancelled"
        /\ task_store[id].task_id = id
    /\ \A g \in Reqs :
        Done(g) /\ req[g].op = "get_status" /\ resp[g].status_code = 200
           => /\ resp[g].body.completed_at # None
                    <=> resp[g].body.status = "cancelled"
              /\ resp[g].body.task_id = req[g].task_id

\* C29 witness: a GetStatus returned a cancelled record with a completion
\* timestamp, stored under the identifier asked for.
C29_Witness ==
    \E g \in Reqs :
        /\ Done(g) /\ req[g].op = "get_status"
        /\ resp[g].status_code = 200
        /\ resp[g].body.status = "cancelled"
        /\ resp[g].body.completed_at # None
        /\ req[g].task_id \in DOMAIN task_store
        /\ task_store[req[g].task_id].task_id = req[g].task_id

\* what the step that ends request r may change in the registry
C30_FrameOf(r) ==
    LET id == IF req[r].op = "dispatch" THEN resp'[r].body.task_id
              ELSE req[r].task_id
    IN /\ \A k \in DOMAIN task_store :
            k # id => k \in DOMAIN task_store'
                      /\ task_store'[k] = task_store[k]
       /\ DOMAIN task_store' \subseteq DOMAIN task_store \cup {id}
       /\ req[r].op = "get_status" => task_store' = task_store
       /\ req[r].op = "cancel" /\ resp'[r].status_code # 200
            => task_store' = task_store
       /\ req[r].op = "cancel" /\ resp'[r].status_code = 200
            => /\ id \in DOMAIN task_store
               /\ task_store'[id] =
                    [task_store[id] EXCEPT
                        !.status = task_store'[id].status,
                        !.completed_at = task_store'[id].completed_at]

\* C30: the step that ends a Dispatch or a Cancel leaves every record stored
\* under another identifier as it was, a successful Cancel changes only the
\* status and the completion timestamp of its record, a GetStatus and a
\* failed Cancel change nothing, and no other step changes the registry.
C30_OnlyNamedRecordTouched ==
    [][/\ \A r \in Reqs : Finishes(r) => C30_FrameOf(r)
       /\ (\A r \in Reqs : ~Finishes(r)) => task_store' = task_store]_vars

\* C30 witness: with two records stored, a Cancel of one succeeded and the
\* other is still pending, as dispatched.
C30_Witness ==
    \E c, d \in Reqs :
        /\ Done(c) /\ Done(d) /\ Pos(d) < Pos(c)
        /\ req[c].op = "cancel" /\ resp[c].status_code = 200
        /\ req[d].op = "dispatch"
        /\ resp[d].body.task_id # req[c].task_id
        /\ resp[d].body.task_id \in DOMAIN task_store
        /\ task_store[resp[d].body.task_id] = wrote[d][1]
        /\ task_store[req[c].task_id].status = "cancelled"

(***************************************************************************)
(* ParallelClient.wait_for_task_run.                                       *)
(***************************************************************************)
TaskRunStatus == {"queued", "action_required", "running", "completed",
                  "failed", "cancelling", "cancelled"}

RunId == "trun_1"

\* the TaskRun objects get_task_run can return: status and is_active are
\* both fields of the remote's JSON, validated one by one
TaskRuns == [run_id : {RunId}, status : TaskRunStatus, is_active : BOOLEAN]

\* the exceptions get_task_run can raise: raise_for_status on a non-2xx
\* response, a transport error, model_validate on a malformed body
FetchErrors == {[exc |-> "HTTPStatusError"], [exc |-> "RequestError"],
                [exc |-> "ValidationError"]}

NoRun == [run_id |-> ""]

NoOutcome == [exc |-> "none"]

\* raise TimeoutError(f"Task {run_id} did not complete within {timeout}s")
TimeoutError(run_id, t) == [exc |-> "TimeoutError", run_id |-> run_id,
                            timeout |-> t]

\* the request get_task_run sends: GET /v1/tasks/runs/{run_id}
GetTaskRunRequest(run_id) ==
    [method |-> "GET", path |-> <<"v1", "tasks", "runs", run_id>>]

\* Propagated with the failure caught and raised again as another kind
PropagatedWrapped(e) == [exc |-> "RuntimeError"]

\* an exception of get_task_run as it leaves wait_for_task_run: the loop
\* has no try/except, so it leaves as raised
Propagated(e) == e

\* DeadlinePassed with >= for >
DeadlinePassedAtLimit(t, s, limit) == t - s >= limit

\* DeadlinePassed with the operands of the subtraction exchanged
DeadlinePassedSwapped(t, s, limit) == s - t > limit

\* time.time() - start > timeout
DeadlinePassed(t, s, limit) == t - s > limit

\* the wall clock d later
Later(t, d) == IF t + d > MaxWall THEN MaxWall ELSE t + d

\* a counter one higher
Count(n) == IF n < MaxCount THEN n + 1 ELSE n

WaitIdle ==
    /\ wpc = "idle"
    /\ poll_interval = 0
    /\ timeout = 0
    /\ wall = 0
    /\ start = 0
    /\ run = NoRun
    /\ outcome = NoOutcome
    /\ fetches = 0
    /\ actives = 0
    /\ checks = 0
    /\ sleeps = 0
    /\ slept = {}
    /\ fetched = NoRun
    /\ sent = {}

\* a caller is about to call wait_for_task_run(RunId, poll_interval, timeout)
WaitInit ==
    /\ wpc = "call"
    /\ poll_interval \in 0..MaxPoll
    /\ timeout \in -1..MaxTimeout
    /\ wall \in {0, 4}
    /\ start = 0
    /\ run = NoRun
    /\ outcome = NoOutcome
    /\ fetches = 0
    /\ actives = 0
    /\ checks = 0
    /\ sleeps = 0
    /\ slept = {}
    /\ fetched = NoRun
    /\ sent = {}

\* Begin with the loop body entered at the sleep
BeginSleepsFirst ==
    /\ wpc = "call"
    /\ start' = wall
    /\ wpc' = "sleep"
    /\ UNCHANGED <<poll_interval, timeout, wall, run, outcome, fetches,
                   actives, checks, sleeps, slept, fetched, sent,
                   regVars, callVars, dumpVars, pairVars>>

\* start = time.time()
Begin ==
    /\ wpc = "call"
    /\ start' = wall
    /\ wpc' = "fetch"
    /\ UNCHANGED <<poll_interval, timeout, wall, run, outcome, fetches,
                   actives, checks, sleeps, slept, fetched, sent,
                   regVars, callVars, dumpVars, pairVars>>

\* run = await self.get_task_run(run_id): the call takes d, then returns a
\* TaskRun or raises
Fetch ==
    /\ wpc = "fetch"
    /\ \E d \in 1..MaxFetchTime : wall' = Later(wall, d)
    /\ fetches' = Count(fetches)
    /\ sent' = sent \cup {GetTaskRunRequest(RunId)}
    /\ \/ \E got \in TaskRuns :
            /\ fetched' = got
            /\ run' = got
            /\ actives' = IF got.is_active THEN Count(actives) ELSE actives
            /\ wpc' = "test_active"
            /\ UNCHANGED outcome
       \/ \E e \in FetchErrors :
            /\ fetched' = e
            /\ outcome' = Propagated(e)
            /\ wpc' = "raised"
            /\ UNCHANGED <<run, actives>>
    /\ UNCHANGED <<poll_interval, timeout, start, checks, sleeps, slept,
                   regVars, callVars, dumpVars, pairVars>>

\* TestActive with the deadline tested before is_active
TestActiveDeadlineFirst ==
    /\ wpc = "test_active"
    /\ IF DeadlinePassed(wall, start, timeout)
       THEN /\ outcome' = TimeoutError(RunId, timeout)
            /\ wpc' = "raised"
       ELSE IF ~run.is_active
            THEN /\ outcome' = run
                 /\ wpc' = "returned"
            ELSE /\ wpc' = "sleep"
                 /\ UNCHANGED outcome
    /\ UNCHANGED <<poll_interval, timeout, wall, start, run, fetches, actives,
                   checks, sleeps, slept, fetched, sent,
                   regVars, callVars, dumpVars, pairVars>>

\* if not run.is_active: return run
TestActive ==
    /\ wpc = "test_active"
    /\ IF ~run.is_active
       THEN /\ outcome' = run
            /\ wpc' = "returned"
       ELSE /\ wpc' = "test_deadline"
            /\ UNCHANGED outcome
    /\ UNCHANGED <<poll_interval, timeout, wall, start, run, fetches, actives,
                   checks, sleeps, slept, fetched, sent,
                   regVars, callVars, dumpVars, pairVars>>

\* TestDeadline with the raise statement removed
TestDeadlineNeverRaises ==
    /\ wpc = "test_deadline"
    /\ checks' = Count(checks)
    /\ wpc' = "sleep"
    /\ UNCHANGED <<poll_interval, timeout, wall, start, run, outcome, fetches,
                   actives, sleeps, slept, fetched, sent,
                   regVars, callVars, dumpVars, pairVars>>

\* TestDeadline with a request to cancel the run sent before raising
TestDeadlineCancelsRun ==
    /\ wpc = "test_deadline"
    /\ checks' = Count(checks)
    /\ IF DeadlinePassed(wall, start, timeout)
       THEN /\ outcome' = TimeoutError(RunId, timeout)
            /\ sent' = sent \cup
                   {[method |-> "POST",
                     path |-> <<"v1", "tasks", "runs", RunId, "cancel">>]}
            /\ wpc' = "raised"
       ELSE /\ wpc' = "sleep"
            /\ UNCHANGED <<outcome, sent>>
    /\ UNCHANGED <<poll_interval, timeout, wall, start, run, fetches, actives,
                   sleeps, slept, fetched,
                   regVars, callVars, dumpVars, pairVars>>

\* if time.time() - start > timeout: raise TimeoutError(...)
TestDeadline ==
    /\ wpc = "test_deadline"
    /\ checks' = Count(checks)
    /\ IF DeadlinePassed(wall, start, timeout)
       THEN /\ outcome' = TimeoutError(RunId, timeout)
            /\ wpc' = "raised"
       ELSE /\ wpc' = "sleep"
            /\ UNCHANGED outcome
    /\ UNCHANGED <<poll_interval, timeout, wall, start, run, fetches, actives,
                   sleeps, slept, fetched, sent,
                   regVars, callVars, dumpVars, pairVars>>

\* Sleep with start = time.time() assigned inside the loop
SleepRestartsClock ==
    /\ wpc = "sleep"
    /\ \E late \in 0..MaxLate :
         /\ wall' = Later(wall, poll_interval + late)
         /\ start' = Later(wall, poll_interval + late)
    /\ sleeps' = Count(sleeps)
    /\ slept' = slept \cup {poll_interval}
    /\ wpc' = "fetch"
    /\ UNCHANGED <<poll_interval, timeout, run, outcome, fetches, actives,
                   checks, fetched, sent,
                   regVars, callVars, dumpVars, pairVars>>

\* await asyncio.sleep(poll_interval): resumes no sooner than the delay
Sleep ==
    /\ wpc = "sleep"
    /\ \E late \in 0..MaxLate : wall' = Later(wall, poll_interval + late)
    /\ sleeps' = Count(sleeps)
    /\ slept' = slept \cup {poll_interval}
    /\ wpc' = "fetch"
    /\ UNCHANGED <<poll_interval, timeout, start, run, outcome, fetches,
                   actives, checks, fetched, sent,
                   regVars, callVars, dumpVars, pairVars>>

WaitNext ==
    \/ Begin
    \/ Fetch
    \/ TestActive
    \/ TestDeadline
    \/ Sleep

(***************************************************************************)
(* Properties of the waiter.                                               *)
(***************************************************************************)
WaitEnded == wpc \in {"returned", "raised"}

\* C8: when fetch N+1 is the first to return a run that is not active,
\* wait_for_task_run returns that run, after N+1 get_task_run calls and N
\* sleeps, each of poll_interval.
C8_ReturnsAfterNPlusOneFetches ==
    /\ [](wpc = "returned"
            => /\ outcome = run
               /\ ~outcome.is_active
               /\ fetches = actives + 1
               /\ sleeps = actives
               /\ slept = IF actives > 0 THEN {poll_interval} ELSE {})
    /\ [][wpc = "test_active" /\ ~run.is_active
            => wpc' = "returned" /\ outcome' = run]_vars

\* C8 witness: the remote reported the run active twice and completed on
\* the third fetch, and the wait returned it.
C8_Witness ==
    /\ wpc = "returned"
    /\ actives = 2
    /\ fetches = 3
    /\ outcome.status = "completed"
    /\ poll_interval > 0

\* C9 as stated: with the run always active and timeout < poll_interval the
\* wait makes at most one fetch and one deadline test and completes no
\* sleep.
C9_TimeoutAtFirstCheck ==
    timeout < poll_interval /\ actives = fetches
       => fetches <= 1 /\ checks <= 1 /\ sleeps = 0

\* C9 amended: with the run always active and timeout < poll_interval the
\* wait raises TimeoutError at its first or second deadline test, after at
\* most two fetches and one completed sleep, and it ends.
C9_TimeoutBySecondCheck ==
    /\ [](timeout < poll_interval /\ actives = fetches
            => /\ fetches <= 2 /\ checks <= 2 /\ sleeps <= 1
               /\ checks = 2 => /\ wpc = "raised"
                                /\ outcome = TimeoutError(RunId, timeout))
    /\ [](timeout < poll_interval /\ wpc = "raised" /\ actives = fetches
            => outcome = TimeoutError(RunId, timeout))
    /\ (timeout < poll_interval => <>WaitEnded)

\* C9 witness: timeout < poll_interval, the first deadline test passed, one
\* sleep completed and the second test raised TimeoutError.
C9_Witness ==
    /\ timeout < poll_interval
    /\ wpc = "raised"
    /\ outcome = TimeoutError(RunId, timeout)
    /\ actives = 2 /\ fetches = 2 /\ checks = 2 /\ sleeps = 1

\* C10: every call of wait_for_task_run ends: it returns a run that is not
\* active, raises TimeoutError or raises the failure of a fetch.
C10_WaitEnds ==
    /\ <>WaitEnded
    /\ [](wpc = "returned" => outcome \in TaskRuns /\ ~outcome.is_active)
    /\ [](wpc = "raised"
            => outcome = TimeoutError(RunId, timeout)
               \/ outcome \in FetchErrors)

\* C10 witness: with poll_interval 0 and a run reported active at every
\* fetch the wait ended with TimeoutError after several rounds.
C10_Witness ==
    /\ poll_interval = 0
    /\ timeout > 0
    /\ wpc = "raised"
    /\ outcome = TimeoutError(RunId, timeout)
    /\ actives = fetches /\ fetches >= 3

\* the saturating clock and counters never reach their last value
WaitCountsExact == wall < MaxWall /\ fetches < MaxCount /\ sleeps < MaxCount

\* the wait ended by raising TimeoutError
TimedOut == wpc = "raised" /\ outcome.exc = "TimeoutError"

\* the last get_task_run failed
FetchFailed == fetched \in FetchErrors

\* C11: whenever a fetch returns a run with is_active false, the next step
\* of the wait returns exactly that run, with no sleep, no deadline test and
\* no further fetch, whatever the elapsed time and the timeout are; a wait
\* never ends before its first fetch
C11_NotActiveReturnsFetched ==
    /\ [](WaitEnded => fetches >= 1)
    /\ []((fetched \in TaskRuns /\ ~fetched.is_active)
            => wpc \in {"test_active", "returned"})
    /\ [][(wpc = "test_active" /\ ~fetched.is_active)
            => /\ wpc' = "returned"
               /\ outcome' = fetched
               /\ <<sleeps, checks, fetches>>' = <<sleeps, checks, fetches>>]_vars

\* the first fetch finds the run not active with the timeout zero or negative
\* and the elapsed time beyond it, and the wait returns that run
C11_Witness ==
    /\ wpc = "returned"
    /\ timeout <= 0
    /\ wall - start > timeout
    /\ outcome = fetched
    /\ fetches = 1 /\ sleeps = 0 /\ checks = 0

\* C12: TimeoutError is raised only by a deadline test at which the time
\* elapsed since the wait began exceeds the timeout of the call, and it
\* carries the run identifier and that timeout
C12_TimeoutOnlyPastDeadline ==
    /\ [](TimedOut => /\ wall - start > timeout
                      /\ outcome.run_id = RunId
                      /\ outcome.timeout = timeout)
    /\ [][(wpc # "raised" /\ wpc' = "raised" /\ outcome'.exc = "TimeoutError")
            => /\ wpc = "test_deadline"
               /\ wall - start > timeout
               /\ checks' = Count(checks)]_vars

\* a positive timeout survives the first deadline test and is exceeded at a
\* later one
C12_Witness ==
    /\ TimedOut
    /\ timeout >= 1
    /\ checks >= 2
    /\ wall - start > timeout
    /\ wall < MaxWall

\* C13: a failed fetch ends the wait with that failure as raised; no fetch
\* or sleep follows it; every other failure of the wait is its own
\* TimeoutError
C13_FetchFailurePropagates ==
    /\ [](FetchFailed => wpc = "raised" /\ outcome = fetched)
    /\ [](wpc = "raised" => FetchFailed \/ outcome.exc = "TimeoutError")
    /\ [][FetchFailed => fetches' = fetches /\ sleeps' = sleeps]_vars

\* a fetch after at least one sleep fails validation and the wait raises the
\* validation error
C13_Witness ==
    /\ wpc = "raised"
    /\ fetched = [exc |-> "ValidationError"]
    /\ outcome = fetched
    /\ fetches >= 2 /\ sleeps >= 1

\* C14: every request the wait sends is the GET of the run, on every path
C14_OnlyStatusReads == sent \subseteq {GetTaskRunRequest(RunId)}

\* the wait timed out having sent the GET and nothing else
C14_Witness ==
    /\ TimedOut
    /\ checks >= 1
    /\ sent = {GetTaskRunRequest(RunId)}

\* the statuses on the active side of the partition
ActiveStatuses == {"queued", "action_required", "running", "cancelling"}

\* the statuses on the other side
InactiveStatuses == {"completed", "failed", "cancelled"}

\* C15: the two sides are disjoint and cover TaskRunStatus, and every TaskRun
\* the client hands over has is_active true exactly on the active side
C15_IsActiveFollowsStatus ==
    /\ ActiveStatuses \cap InactiveStatuses = {}
    /\ ActiveStatuses \cup InactiveStatuses = TaskRunStatus
    /\ \A o \in {run, outcome} \cap TaskRuns :
            o.is_active <=> o.status \in ActiveStatuses

\* the last fetch returned an active run whose test is still to be made
CheckPending ==
    /\ wpc \in {"test_active", "test_deadline"}
    /\ fetched \in TaskRuns /\ fetched.is_active

\* C27: a deadline test that finds the elapsed time beyond the timeout
\* raises TimeoutError and no sleep follows it; every fetch that returns an
\* active run is followed by one deadline test, taken at the instant the
\* fetch ended; so a wait is never asleep, and never starts a fetch, with an
\* active run fetched after the deadline, and a wait that has ended made one
\* fetch more than it completed sleeps.
C27_NoSleepAfterDeadline ==
    /\ [][(wpc = "test_deadline" /\ wall - start > timeout)
            => /\ wpc' = "raised"
               /\ outcome' = TimeoutError(RunId, timeout)
               /\ sleeps' = sleeps /\ fetches' = fetches
               /\ wall' = wall]_vars
    /\ [][(wpc = "test_active" /\ fetched.is_active)
            => wpc' = "test_deadline" /\ wall' = wall]_vars
    /\ [][wpc = "test_deadline" /\ checks < MaxCount
            => checks' = checks + 1]_vars
    /\ [][checks' # checks => wpc = "test_deadline"]_vars
    /\ [](WaitCountsExact
            => checks = actives - (IF CheckPending THEN 1 ELSE 0))
    /\ [](wpc = "sleep" => wall - start <= timeout)
    /\ [][wpc = "sleep" /\ wpc' = "fetch" /\ sleeps < MaxCount
            => sleeps' = sleeps + 1]_vars
    /\ [](WaitEnded /\ WaitCountsExact => fetches = sleeps + 1)

\* C27 witness: the run stayed active, two deadline tests passed, the
\* deadline went by during the second sleep and the third fetch, and the
\* test after that fetch raised TimeoutError: three fetches, two sleeps.
C27_Witness ==
    /\ TimedOut
    /\ WaitCountsExact
    /\ wall - start > timeout
    /\ fetches = 3 /\ actives = 3 /\ checks = 3 /\ sleeps = 2

(***************************************************************************)
(* Capability calls: a REST route, a tool or a direct caller opens a       *)
(* ParallelClient session, calls client methods and reports the outcome.   *)
(***************************************************************************)
Fronts == {"rest", "tool", "direct"}

\* the routes of fastapi_app that call the remote API
RestRoutes == {"search", "extract", "list_monitors", "create_monitor",
               "get_monitor", "delete_monitor", "create_task", "get_task",
               "create_findall", "get_findall", "get_findall_result"}

\* the tools of mcp_server
Tools == {"parallel_search", "parallel_extract", "parallel_monitor_create",
          "parallel_monitor_list", "parallel_monitor_delete",
          "parallel_task_run", "parallel_task_status", "parallel_findall",
          "parallel_findall_result"}

\* the methods of ParallelClient that send one request
ClientMethods == {"extract", "search", "list_monitors", "create_monitor",
                  "get_monitor", "update_monitor", "delete_monitor",
                  "list_monitor_events", "create_task_run", "get_task_run",
                  "get_task_run_result", "create_task_group",
                  "get_task_group", "create_findall_run", "get_findall_run",
                  "get_findall_result", "cancel_findall_run",
                  "extend_findall_run", "add_findall_enrichment"}

Caps(f) ==
    CASE f = "rest" -> RestRoutes
      [] f = "tool" -> Tools
      [] OTHER -> ClientMethods \cup {"wait_for_task_run"}

\* the routes and tools that create a task run and may wait for it
TaskRunCaps == {"create_task", "parallel_task_run"}

\* the routes and tools that read a task run
TaskStatusCaps == {"get_task", "parallel_task_status"}

\* the route, tool and method that create a findall run
FindAllCaps == {"create_findall", "parallel_findall", "create_findall_run"}

\* values of match_limit around the two limits
MatchLimits == {4, 5, 1000, 1001}

\* FindAllBody.match_limit: Field(default=50, ge=5, le=1000)
FindAllBodyValid(n) == n >= 5 /\ n <= 1000

\* parallel_findall's match_limit: Field(default=50, ge=5, le=1000)
ToolArgValid(n) == n >= 5 /\ n <= 1000

\* FindAllRequest.match_limit with no constraint
MatchLimitAny(n) == TRUE

\* FindAllRequest.match_limit: Field(..., ge=5, le=1000)
MatchLimitValid(n) == n >= 5 /\ n <= 1000

\* the first client method a route or tool calls; a direct caller names it
FirstMethod(c) ==
    CASE c = "parallel_search" -> "search"
      [] c = "parallel_extract" -> "extract"
      [] c = "parallel_monitor_create" -> "create_monitor"
      [] c = "parallel_monitor_list" -> "list_monitors"
      [] c = "parallel_monitor_delete" -> "delete_monitor"
      [] c \in TaskRunCaps -> "create_task_run"
      [] c \in TaskStatusCaps -> "get_task_run"
      [] c \in {"create_findall", "parallel_findall"} -> "create_findall_run"
      [] c = "get_findall" -> "get_findall_run"
      [] c = "parallel_findall_result" -> "get_findall_result"
      [] OTHER -> c

\* the identifier passed for a monitor, task group or findall run
ResourceId == "id_1"

Verb(m) ==
    CASE m \in {"list_monitors", "get_monitor", "list_monitor_events",
                "get_task_run", "get_task_run_result", "get_task_group",
                "get_findall_run", "get_findall_result"} -> "GET"
      [] m = "delete_monitor" -> "DELETE"
      [] OTHER -> "POST"

Path(m) ==
    CASE m = "extract" -> <<"v1beta", "extract">>
      [] m = "search" -> <<"v1beta", "search">>
      [] m \in {"list_monitors", "create_monitor"} -> <<"v1alpha", "monitors">>
      [] m \in {"get_monitor", "update_monitor", "delete_monitor"} ->
            <<"v1alpha", "monitors", ResourceId>>
      [] m = "list_monitor_events" ->
            <<"v1alpha", "monitors", ResourceId, "events">>
      [] m = "create_task_run" -> <<"v1", "tasks", "runs">>
      [] m = "get_task_run" -> GetTaskRunRequest(RunId).path
      [] m = "get_task_run_result" -> <<"v1", "tasks", "runs", RunId, "result">>
      [] m = "create_task_group" -> <<"v1beta", "tasks", "groups">>
      [] m = "get_task_group" -> <<"v1beta", "tasks", "groups", ResourceId>>
      [] m = "create_findall_run" -> <<"v1beta", "findall", "runs">>
      [] m = "get_findall_run" -> <<"v1beta", "findall", "runs", ResourceId>>
      [] m = "get_findall_result" ->
            <<"v1beta", "findall", "runs", ResourceId, "result">>
      [] m = "cancel_findall_run" ->
            <<"v1beta", "findall", "runs", ResourceId, "cancel">>
      [] m = "extend_findall_run" ->
            <<"v1beta", "findall", "runs", ResourceId, "extend">>
      [] m = "add_findall_enrichment" ->
            <<"v1beta", "findall", "runs", ResourceId, "enrich">>

\* what the method makes of the body of a 2xx response
ResultType(m) ==
    CASE m = "extract" -> "ExtractResponse"
      [] m = "search" -> "SearchResponse"
      [] m = "list_monitors" -> "list[Monitor]"
      [] m \in {"create_monitor", "get_monitor", "update_monitor"} -> "Monitor"
      [] m = "delete_monitor" -> "None"
      [] m = "list_monitor_events" -> "list[MonitorEvent]"
      [] m \in {"create_task_run", "get_task_run"} -> "TaskRun"
      [] m = "get_task_run_result" -> "dict"
      [] m \in {"create_task_group", "get_task_group"} -> "TaskGroup"
      [] m = "get_findall_result" -> "FindAllResult"
      [] OTHER -> "FindAllRun"

\* the request as the httpx client of the session sends it
HttpRequest(m, session) ==
    [method |-> Verb(m), path |-> Path(m), x_api_key |-> session.x_api_key,
     match_limit |-> IF m = "create_findall_run" THEN Some(match_limit)
                     ELSE None]

\* settings.parallel_apikey (Optional[str]) / the api_key argument (str)
ApiKeys == {None, Some(""), Some("key")}

\* the status codes the remote answers with
RemoteStatuses == {200, 201, 302, 404, 429, 503}

\* the bodies the remote answers with: JSON of the shape the method's model
\* accepts, JSON of another shape, or no JSON at all
Bodies(m) ==
    [kind : {"mismatch", "not_json"}, run : {NoRun}]
        \cup [kind : {"object"},
              run : IF ResultType(m) = "TaskRun" THEN TaskRuns ELSE {NoRun}]

NoResponse == [status_code |-> 0, body |-> [kind |-> "none", run |-> NoRun]]

Responses(m) == [status_code : RemoteStatuses, body : Bodies(m)]

\* how a client method ends: exc is "none" when it returns value; validated
\* tells whether model_validate was applied to the body
Returned(v, validated) ==
    [exc |-> "none", status_code |-> None, value |-> v,
     validated |-> validated]

Raised(e, status_code, validated) ==
    [exc |-> e, status_code |-> status_code, value |-> None,
     validated |-> validated]

NoResult == Raised("nothing", None, FALSE)

\* httpx Response.is_success
is_success(status_code) == status_code >= 200 /\ status_code <= 299

\* raise_for_status raising for the 4xx and 5xx codes only
RaisesFrom400(status_code) == status_code >= 400

\* response.raise_for_status() raises httpx.HTTPStatusError
raise_for_status(status_code) == ~is_success(status_code)

\* the lines of a client method after raise_for_status: response.json() and
\* model_validate
Parse(m, body) ==
    CASE ResultType(m) = "None" -> Returned(None, FALSE)
      [] ResultType(m) # "None" /\ body.kind = "not_json" ->
            Raised("JSONDecodeError", None, FALSE)
      [] ResultType(m) = "dict" /\ body.kind # "not_json" ->
            Returned(Some([type |-> "dict", run |-> NoRun]), FALSE)
      [] ResultType(m) \notin {"None", "dict"} /\ body.kind = "mismatch" ->
            Raised("ValidationError", None, TRUE)
      [] OTHER ->
            Returned(Some([type |-> ResultType(m), run |-> body.run]), TRUE)

\* a client method from the response on
ClientCall(m, r) ==
    IF raise_for_status(r.status_code)
    THEN Raised("HTTPStatusError", Some(r.status_code), FALSE)
    ELSE Parse(m, r.body)

\* the APIException each route raises from its except Exception clause
RouteFailure(route) ==
    CASE route = "search" -> APIException(500, None, Some("search_failed"))
      [] route = "extract" -> APIException(500, None, Some("extract_failed"))
      [] route = "list_monitors" ->
            APIException(500, None, Some("list_monitors_failed"))
      [] route = "create_monitor" ->
            APIException(500, None, Some("create_monitor_failed"))
      [] route = "get_monitor" ->
            APIException(404, Some("monitor_id"), Some("monitor_not_found"))
      [] route = "delete_monitor" ->
            APIException(500, Some("monitor_id"),
                         Some("delete_monitor_failed"))
      [] route = "create_task" ->
            APIException(500, None, Some("create_task_failed"))
      [] route = "get_task" ->
            APIException(404, Some("run_id"), Some("task_not_found"))
      [] route = "create_findall" ->
            APIException(500, None, Some("create_findall_failed"))
      [] route = "get_findall" ->
            APIException(404, Some("findall_id"), Some("findall_not_found"))
      [] route = "get_findall_result" ->
            APIException(404, Some("findall_id"),
                         Some("findall_result_not_found"))

\* what the body of the async with block returns to the front end's caller
ReturnValue(c, m, r, res) ==
    IF c \in TaskRunCaps \cup TaskStatusCaps
    THEN IF m = "get_task_run_result"
         THEN [run_id |-> r.run_id, status |-> r.status,
               result |-> res.value]
         ELSE [run_id |-> r.run_id, status |-> r.status,
               is_active |-> r.is_active]
    ELSE res.value

\* a route: try ... except Exception as e: raise APIException(...)
RestReply(route, m, r, res) ==
    IF res.exc # "none"
    THEN RouteFailure(route)
    ELSE [status_code |-> 200, body |-> ReturnValue(route, m, r, res)]

\* a tool or a direct caller: no try/except, the exception leaves as raised
PlainReply(c, m, r, res) ==
    IF res.exc # "none"
    THEN [raised |-> res]
    ELSE [returned |-> ReturnValue(c, m, r, res)]

\* get_parallel_client raises APIException, get_client raises ValueError
ConfigError(f) ==
    IF f = "rest"
    THEN APIException(500, None, Some("missing_api_key"))
    ELSE [raised |-> Raised("ValueError", None, FALSE)]

\* the response to a body that fails FindAllBody: HTTP 422 with the errors
Unprocessable == [status_code |-> 422, detail |-> "match_limit"]

\* pydantic's ValidationError, as the tool framework and FindAllRequest(...)
\* raise it
ValidationError == Raised("ValidationError", None, FALSE)

NoReply == [nothing |-> TRUE]

\* no capability call in progress
CallIdle ==
    /\ front = "none"
    /\ cap = "none"
    /\ apikey = None
    /\ wait_for_completion = FALSE
    /\ cpc = "idle"
    /\ _client = None
    /\ method = "none"
    /\ net = <<>>
    /\ response = NoResponse
    /\ result = NoResult
    /\ trun = NoRun
    /\ polls = 0
    /\ reply = NoReply
    /\ match_limit = 50
    /\ conns = 0
    /\ after = NoResult

\* one capability call about to be made
CallInit ==
    /\ front \in Fronts
    /\ cap \in Caps(front)
    /\ apikey \in ApiKeys
    /\ front = "direct" => apikey # None
    /\ wait_for_completion \in (IF cap \in TaskRunCaps THEN BOOLEAN
                                ELSE {FALSE})
    /\ cpc = "start"
    /\ _client = None
    /\ method = FirstMethod(cap)
    /\ net = <<>>
    /\ response = NoResponse
    /\ result = NoResult
    /\ trun = NoRun
    /\ polls = 0
    /\ reply = NoReply
    /\ match_limit \in (IF cap \in FindAllCaps THEN MatchLimits ELSE {50})
    /\ conns = 0
    /\ after = NoResult

\* get_parallel_client / get_client: if not settings.parallel_apikey: raise;
\* a direct caller constructs ParallelClient(api_key) itself.  A tool's
\* arguments are validated before its body, which calls get_client, runs; a
\* route's dependency get_parallel_client is called before its body
\* parameter is validated, and the handler runs only when both passed
GetClient ==
    /\ cpc = "start"
    /\ IF front = "tool" /\ cap \in FindAllCaps /\ ~ToolArgValid(match_limit)
       THEN /\ reply' = [raised |-> ValidationError]
            /\ cpc' = "done"
       ELSE IF front # "direct" /\ ~Truthy(apikey)
       THEN /\ reply' = ConfigError(front)
            /\ cpc' = "done"
       ELSE IF /\ front = "rest" /\ cap \in FindAllCaps
               /\ ~FindAllBodyValid(match_limit)
       THEN /\ reply' = Unprocessable
            /\ cpc' = "done"
       ELSE /\ cpc' = "constructed"
            /\ UNCHANGED reply
    /\ UNCHANGED <<front, cap, apikey, wait_for_completion, _client, method,
                   net, response, result, trun, polls, conns, match_limit, after,
                   regVars, waitVars, dumpVars, pairVars>>

\* __aenter__: self._client = httpx.AsyncClient(headers={"x-api-key": ...})
Enter ==
    /\ cpc = "constructed"
    /\ _client' = Some([x_api_key |-> apikey[1]])
    /\ conns' = conns + 1
    /\ cpc' = IF method = "wait_for_task_run" THEN "wait" ELSE "call"
    /\ UNCHANGED <<front, cap, apikey, wait_for_completion, method, net,
                   response, result, trun, polls, reply, match_limit, after,
                   regVars, waitVars, dumpVars, pairVars>>

\* the result is fetched for every run that has ended
ResultWantedWhenEnded(r) == r.status \in TerminalStatuses

\* if run.status.value == "completed": the result is fetched
ResultWanted(r) == r.status = "completed"

\* the answers of the remote to one request; NoResponse is a transport error
Answers(m) == Responses(m) \cup {NoResponse}

\* a client method from the request on
Outcome(m, r) ==
    IF r = NoResponse THEN Raised("RequestError", None, FALSE)
    ELSE ClientCall(m, r)

\* create_findall_run: request = FindAllRequest(..., match_limit=match_limit)
\* raises before self.client is read
Rejected(m) == m = "create_findall_run" /\ ~MatchLimitValid(match_limit)

\* a client method that raises while it builds its request model
CallRejected ==
    /\ cpc = "call"
    /\ Rejected(method)
    /\ result' = ValidationError
    /\ cpc' = "exit"
    /\ UNCHANGED <<front, cap, apikey, wait_for_completion, _client, method,
                   net, response, trun, polls, reply, conns, match_limit,
                   after, regVars, waitVars, dumpVars, pairVars>>

\* one client method called in the async with block, and the statements of
\* the block up to its next await
Call ==
    /\ cpc = "call"
    /\ ~Rejected(method)
    /\ \E r \in Answers(method) :
        LET res == Outcome(method, r) IN
        /\ net' = Append(net, HttpRequest(method, _client[1]))
        /\ response' = r
        /\ result' = res
        /\ IF res.exc # "none"
           THEN /\ cpc' = "exit"
                /\ UNCHANGED <<method, trun>>
           ELSE IF method = "create_task_run" /\ cap \in TaskRunCaps
           THEN /\ trun' = res.value[1].run
                /\ IF wait_for_completion
                   THEN cpc' = "wait" /\ method' = "wait_for_task_run"
                   ELSE cpc' = "exit" /\ UNCHANGED method
           ELSE IF method = "get_task_run" /\ cap \in TaskStatusCaps
           THEN /\ trun' = res.value[1].run
                /\ IF ResultWanted(res.value[1].run)
                   THEN cpc' = "call" /\ method' = "get_task_run_result"
                   ELSE cpc' = "exit" /\ UNCHANGED method
           ELSE /\ cpc' = "exit"
                /\ UNCHANGED <<method, trun>>
    /\ UNCHANGED <<front, cap, apikey, wait_for_completion, _client, polls,
                   reply, conns, match_limit, after,
                   regVars, waitVars, dumpVars, pairVars>>

\* wait_for_task_run: run = await self.get_task_run(run_id);
\* if not run.is_active: return run
Poll ==
    /\ cpc = "wait"
    /\ polls' = polls + 1
    /\ \E r \in Answers("get_task_run") :
        LET res == Outcome("get_task_run", r) IN
        /\ net' = Append(net, HttpRequest("get_task_run", _client[1]))
        /\ response' = r
        /\ result' = res
        /\ IF res.exc # "none"
           THEN /\ cpc' = "exit"
                /\ UNCHANGED <<method, trun>>
           ELSE /\ trun' = res.value[1].run
                /\ IF res.value[1].run.is_active
                   THEN cpc' = "deadline" /\ UNCHANGED method
                   ELSE IF front # "direct"
                           /\ ResultWanted(res.value[1].run)
                   THEN cpc' = "call" /\ method' = "get_task_run_result"
                   ELSE cpc' = "exit" /\ UNCHANGED method
    /\ UNCHANGED <<front, cap, apikey, wait_for_completion, _client, reply,
                   conns, match_limit, after,
                   regVars, waitVars, dumpVars, pairVars>>

\* wait_for_task_run: the deadline test raises TimeoutError, or the sleep
\* ends and the loop fetches again
Deadline ==
    /\ cpc = "deadline"
    /\ \/ /\ result' = Raised("TimeoutError", None, FALSE)
          /\ cpc' = "exit"
       \/ /\ polls < MaxPolls
          /\ cpc' = "wait"
          /\ UNCHANGED result
    /\ UNCHANGED <<front, cap, apikey, wait_for_completion, _client, method,
                   net, response, trun, polls, reply, conns, match_limit, after,
                   regVars, waitVars, dumpVars, pairVars>>

\* __aexit__ skipped when the block is left by an exception
ExitOnReturnOnly ==
    /\ cpc = "exit"
    /\ IF result.exc = "none"
       THEN _client' = None /\ conns' = conns - 1
       ELSE UNCHANGED <<_client, conns>>
    /\ cpc' = "respond"
    /\ UNCHANGED <<front, cap, apikey, wait_for_completion, method, net,
                   response, result, trun, polls, reply, match_limit, after,
                   regVars, waitVars, dumpVars, pairVars>>

\* __aexit__: if self._client: await self._client.aclose();
\* self._client = None
Exit ==
    /\ cpc = "exit"
    /\ IF _client # None
       THEN _client' = None /\ conns' = conns - 1
       ELSE UNCHANGED <<_client, conns>>
    /\ cpc' = "respond"
    /\ UNCHANGED <<front, cap, apikey, wait_for_completion, method, net,
                   response, result, trun, polls, reply, match_limit, after,
                   regVars, waitVars, dumpVars, pairVars>>

\* the front end hands the outcome to its caller
Respond ==
    /\ cpc = "respond"
    /\ reply' = IF front = "rest" THEN RestReply(cap, method, trun, result)
                ELSE PlainReply(cap, method, trun, result)
    /\ cpc' = "done"
    /\ UNCHANGED <<front, cap, apikey, wait_for_completion, _client, method,
                   net, response, result, trun, polls, conns, match_limit, after,
                   regVars, waitVars, dumpVars, pairVars>>

\* a client method called, with arguments its request model accepts, on the
\* client object after the front end or the caller is done with the session:
\* the client property raises RuntimeError when self._client is None, before
\* any request
LateCall ==
    /\ cpc = "done"
    /\ result # NoResult
    /\ \E m \in {c \in ClientMethods : ~Rejected(c)} :
        IF _client = None
        THEN /\ after' = Raised("RuntimeError", None, FALSE)
             /\ UNCHANGED <<net, response>>
        ELSE \E r \in Answers(m) :
                /\ net' = Append(net, HttpRequest(m, _client[1]))
                /\ response' = r
                /\ after' = Outcome(m, r)
    /\ cpc' = "after"
    /\ UNCHANGED <<front, cap, apikey, wait_for_completion, _client, method,
                   result, trun, polls, reply, match_limit, conns, regVars,
                   waitVars, dumpVars, pairVars>>

CallNext ==
    \/ GetClient \/ Enter \/ CallRejected \/ Call \/ Poll \/ Deadline \/ Exit
    \/ Respond \/ LateCall

\* a REST call has ended after a client method raised HTTPStatusError for s
RestFailedWith(s) ==
    /\ front = "rest"
    /\ cpc = "done"
    /\ result = Raised("HTTPStatusError", Some(s), FALSE)

\* C16: a remote 429 behind any REST route is answered with error.type
\* rate_limit_error, a remote 404 with not_found_error
C16_RemoteStatusSurfaces ==
    /\ RestFailedWith(429) => reply.error.type = "rate_limit_error"
    /\ RestFailedWith(404) => reply.error.type = "not_found_error"

\* the machine-readable part of a REST error response
Discriminators(r) == <<r.status_code, r.error.type, r.error.code>>

\* a task-run call with wait_for_completion has ended
TaskRunWaited(f) ==
    /\ front = f
    /\ cap \in TaskRunCaps
    /\ wait_for_completion
    /\ cpc = "done"

\* C17: POST /api/tasks answers a remote non-2xx with discriminators other
\* than those it answers a TimeoutError of the wait with, and the tool
\* raises each of the two as the exception it is
C17_ErrorKindsKept ==
    /\ (TaskRunWaited("rest") /\ result.exc = "HTTPStatusError")
        => Discriminators(reply) #
             Discriminators(RestReply(cap, "wait_for_task_run", trun,
                                      Raised("TimeoutError", None, FALSE)))
    /\ (TaskRunWaited("tool")
            /\ result.exc \in {"HTTPStatusError", "TimeoutError"})
        => reply = [raised |-> result]

\* C18: with an absent or empty credential no request is sent, and the call
\* ends with the configuration error
C18_NoRequestWithoutCredential ==
    ~Truthy(apikey)
        => /\ net = <<>>
           /\ cpc = "done" => reply = ConfigError(front)

\* C19: after a response with a status outside 200..299 the client method
\* has raised HTTPStatusError with that status, model_validate not applied;
\* so a method that returned has a 2xx response behind it
C19_Non2xxRaisesBeforeValidation ==
    (response # NoResponse
        /\ response.status_code \notin 200..299)
        => /\ result.exc = "HTTPStatusError"
           /\ result.status_code = Some(response.status_code)
           /\ result.value = None
           /\ ~result.validated

\* a direct get_task_run answered 302 with a body TaskRun would accept ends
\* with HTTPStatusError 302
C19_Witness ==
    /\ front = "direct"
    /\ cap = "get_task_run"
    /\ cpc = "done"
    /\ response.status_code = 302
    /\ response.body.kind = "object"
    /\ reply = [raised |-> Raised("HTTPStatusError", Some(302), FALSE)]

\* the call entered a client session and has left it
SessionLeft == cpc \in {"respond", "done", "after"} /\ result # NoResult

Kind(q) ==
    CASE q.method = "POST" /\ q.path = Path("create_task_run") -> "create"
      [] q.method = "GET" /\ q.path = Path("get_task_run") -> "poll"
      [] q.method = "GET" /\ q.path = Path("get_task_run_result") -> "result"
      [] OTHER -> "other"

\* the positions of net holding a request of kind k
Sent(k) == {i \in 1..Len(net) : Kind(net[i]) = k}

\* a task-run route or tool called with wait_for_completion
WaitingTaskRun == cap \in TaskRunCaps /\ wait_for_completion

\* the status the reply of a task flow carries
ReplyStatus ==
    IF front = "rest" THEN reply.body.status ELSE reply.returned.status

\* C22: in POST /api/tasks and parallel_task_run with wait_for_completion the
\* requests are one create, then polls, then at most one result fetch, which
\* is last and follows at least one poll; the result is fetched only when
\* the wait has returned a run that is not active and has status completed;
\* a wait that returns a failed or cancelled run is answered with that
\* status and no result fetch
C22_CreatePollsResult ==
    WaitingTaskRun
        => /\ Sent("other") = {}
           /\ Sent("create") = {i \in {1} : net # <<>>}
           /\ \A i \in Sent("result") :
                /\ i = Len(net)
                /\ i >= 3
                /\ Kind(net[i - 1]) = "poll"
                /\ trun.status = "completed"
                /\ ~trun.is_active
           /\ (cpc = "done" /\ result.exc = "none"
                    /\ trun.status \in {"failed", "cancelled"})
                => /\ Sent("result") = {}
                   /\ Sent("poll") # {}
                   /\ ReplyStatus = trun.status

\* parallel_task_run polled twice, the second poll returned the run
\* completed, and the result was fetched once
C22_Witness ==
    /\ front = "tool"
    /\ WaitingTaskRun
    /\ cpc = "done"
    /\ Len(net) = 4
    /\ Sent("poll") = {2, 3}
    /\ Sent("result") = {4}
    /\ reply.returned.status = "completed"

\* a findall creation called with a match_limit outside 5..1000
OutOfRange == cap \in FindAllCaps /\ match_limit \notin 5..1000

\* the call has ended with a validation error: HTTP 422 from the route, the
\* ValidationError raised from the tool or the client method
ValidationFailed ==
    /\ cpc \in {"done", "after"}
    /\ reply \in {Unprocessable, [raised |-> ValidationError]}

\* no request carries a match_limit outside 5..1000
NoneSentOutOfRange ==
    \A i \in 1..Len(net) :
        net[i].match_limit # None => net[i].match_limit[1] \in 5..1000

\* C26 as stated: a findall creation with match_limit outside 5..1000 sends
\* no request and ends with a validation error, through the route, the tool
\* and the client method alike.
C26_OutOfRangeIsValidationError ==
    /\ NoneSentOutOfRange
    /\ OutOfRange
        => /\ net = <<>>
           /\ cpc \in {"done", "after"} => ValidationFailed

\* C26 amended: no request to the remote carries a match_limit outside
\* 5..1000, and a findall creation with such a match_limit sends no request
\* and fails: with a validation error through the tool and the client
\* method, and through the route when the credential is configured; the
\* route without a credential answers with its missing_api_key error, its
\* dependency being resolved before the body is validated.
C26_OutOfRangeNeverSent ==
    /\ NoneSentOutOfRange
    /\ OutOfRange
        => /\ net = <<>>
           /\ cpc \in {"done", "after"}
                => IF front = "rest" /\ ~Truthy(apikey)
                   THEN reply = ConfigError("rest")
                   ELSE ValidationFailed

\* C26 witness: a direct create_findall_run with match_limit 1001 entered
\* the session, raised ValidationError with nothing sent, and the session
\* was closed.
C26_Witness ==
    /\ front = "direct" /\ cap = "create_findall_run"
    /\ match_limit = 1001
    /\ cpc = "done"
    /\ result = ValidationError
    /\ reply = [raised |-> ValidationError]
    /\ net = <<>>
    /\ conns = 0

(***************************************************************************)
(* Request serialization: a request model is built from keyword arguments  *)
(* and dumped with model_dump(exclude_none=True).                          *)
(***************************************************************************)
\* the request models the client builds
RequestModels == {"SearchRequest", "ExtractRequest", "CreateMonitorRequest",
                  "UpdateMonitorRequest", "TaskRunRequest",
                  "TaskGroupRequest", "FindAllRequest", "EnrichmentRequest"}

\* the fields of each model: "required" is Field(...), "optional" is
\* Optional[...] with default None, "defaulted" is Optional[...] with another
\* default, "defaulted_nonnull" is a default on a type without None
FieldKinds(model) ==
    CASE model = "SearchRequest" ->
            [objective |-> "optional", search_queries |-> "optional",
             mode |-> "defaulted", max_results |-> "defaulted",
             excerpts |-> "optional", source_policy |-> "optional",
             fetch_policy |-> "optional"]
      [] model = "ExtractRequest" ->
            [urls |-> "required", objective |-> "optional",
             search_queries |-> "optional", fetch_policy |-> "optional",
             excerpts |-> "defaulted_nonnull",
             full_content |-> "defaulted_nonnull"]
      [] model = "CreateMonitorRequest" ->
            [query |-> "required", cadence |-> "required",
             metadata |-> "optional", webhook |-> "optional"]
      [] model = "UpdateMonitorRequest" ->
            [query |-> "optional", cadence |-> "optional",
             status |-> "optional", metadata |-> "optional",
             webhook |-> "optional"]
      [] model = "TaskRunRequest" ->
            [processor |-> "required", input |-> "required",
             metadata |-> "optional", source_policy |-> "optional",
             task_spec |-> "optional", mcp_servers |-> "optional",
             enable_events |-> "optional", webhook |-> "optional"]
      [] model = "TaskGroupRequest" ->
            [name |-> "optional", processor |-> "required",
             metadata |-> "optional"]
      [] model = "FindAllRequest" ->
            [objective |-> "required", entity_type |-> "required",
             match_conditions |-> "required", generator |-> "required",
             match_limit |-> "required", exclude_list |-> "optional",
             metadata |-> "optional", webhook |-> "optional"]
      [] model = "EnrichmentRequest" ->
            [enrichment_type |-> "required", fields |-> "required",
             options |-> "optional"]

Fields(model) == DOMAIN FieldKinds(model)

\* the keyword arguments a model can be called with: any of its fields, each
\* None or a value of the field's type
Kwargs(model) ==
    UNION {[K -> {None, Some("v")}] : K \in SUBSET Fields(model)}

\* the default of a field that has one
Default(kind) == IF kind = "optional" THEN None ELSE Some("default")

\* pydantic validation of the keyword arguments: a required field is passed,
\* and None is passed only for an Optional field
Valid(model, kwargs) ==
    \A f \in Fields(model) :
        /\ FieldKinds(model)[f] = "required" => f \in DOMAIN kwargs
        /\ (FieldKinds(model)[f] \in {"required", "defaulted_nonnull"}
                /\ f \in DOMAIN kwargs) => kwargs[f] # None

\* Model(**kwargs): the fields passed, the defaults for the others
Construct(model, kwargs) ==
    [f \in Fields(model) |->
        IF f \in DOMAIN kwargs THEN kwargs[f]
        ELSE Default(FieldKinds(model)[f])]

\* model_dump() with every field kept
model_dump_all(inst) == inst

\* request.model_dump(exclude_none=True)
model_dump(inst) ==
    [f \in {g \in DOMAIN inst : inst[g] # None} |-> inst[f]]

NoRequest == [model |-> "none", kwargs |-> <<>>]

\* no request being serialized
DumpIdle ==
    /\ dpc = "idle"
    /\ request = NoRequest
    /\ instance = <<>>
    /\ json = <<>>

\* one request model about to be built
DumpInit ==
    /\ dpc = "build"
    /\ \E model \in RequestModels :
        \E kwargs \in Kwargs(model) :
            request = [model |-> model, kwargs |-> kwargs]
    /\ instance = <<>>
    /\ json = <<>>

\* request = <Model>(...)
Build ==
    /\ dpc = "build"
    /\ IF Valid(request.model, request.kwargs)
       THEN /\ instance' = Construct(request.model, request.kwargs)
            /\ dpc' = "dump"
       ELSE /\ dpc' = "invalid"
            /\ UNCHANGED instance
    /\ UNCHANGED <<request, json, regVars, waitVars, callVars,
                   pairVars>>

\* json=request.model_dump(exclude_none=True)
Dump ==
    /\ dpc = "dump"
    /\ json' = model_dump(instance)
    /\ dpc' = "dumped"
    /\ UNCHANGED <<request, instance, regVars, waitVars, callVars,
                   pairVars>>

DumpNext == Build \/ Dump

\* the fields typed Optional
OptionalFields(model) ==
    {f \in Fields(model) : FieldKinds(model)[f] \in {"optional", "defaulted"}}

\* the fields of kind k
FieldsOfKind(model, k) == {f \in Fields(model) : FieldKinds(model)[f] = k}

\* the fields passed with a value
Populated(r) == {f \in DOMAIN r.kwargs : r.kwargs[f] # None}

\* C20 as stated: the body has no null value, and a search, monitor-update
\* or task-run request with exactly one Optional field populated and the
\* other Optional fields not passed serializes to exactly one key
C20_OnePopulatedOneKey ==
    dpc = "dumped"
        => /\ \A k \in DOMAIN json : json[k] # None
           /\ (/\ request.model \in {"SearchRequest", "UpdateMonitorRequest",
                                     "TaskRunRequest"}
               /\ Cardinality(Populated(request)
                                \cap OptionalFields(request.model)) = 1
               /\ DOMAIN request.kwargs \cap OptionalFields(request.model)
                    \subseteq Populated(request))
                => Cardinality(DOMAIN json) = 1

\* C20 amended: the body has no null value; its keys are the fields passed
\* with a value and the fields with a non-null default that were not
\* passed; so a model whose fields are all Optional with default None
\* (monitor-update) serializes one populated field to exactly one key
C20_KeysAreNonNullFields ==
    dpc = "dumped"
        => /\ \A k \in DOMAIN json : json[k] # None
           /\ DOMAIN json =
                Populated(request)
                    \cup ((FieldsOfKind(request.model, "defaulted")
                            \cup FieldsOfKind(request.model,
                                              "defaulted_nonnull"))
                          \ DOMAIN request.kwargs)
           /\ FieldsOfKind(request.model, "required")
                \subseteq DOMAIN json
           /\ (request.model = "UpdateMonitorRequest"
                    /\ Cardinality(Populated(request)) = 1)
                => Cardinality(DOMAIN json) = 1

\* the request client.search(objective=...) builds: search_queries None,
\* max_results and mode passed; the body has three keys
C20_Witness ==
    /\ dpc = "dumped"
    /\ request.model = "SearchRequest"
    /\ DOMAIN request.kwargs
        = {"objective", "search_queries", "max_results", "mode"}
    /\ Populated(request) = {"objective", "max_results", "mode"}
    /\ DOMAIN json = {"objective", "max_results", "mode"}

(***************************************************************************)
(* Two wait_for_task_run calls on the same run identifier, as coroutines   *)
(* of one event loop: a coroutine runs from one await to the next.         *)
(***************************************************************************)
Waiters == {1, 2}

\* the run while the remote works on it
ActiveRun == [run_id |-> RunId, status |-> "running", is_active |-> TRUE]

\* the run as the remote reports it once it has ended
EndedRuns == {r \in TaskRuns : r.status \in TerminalStatuses /\ ~r.is_active}

\* a call about to be made with its own timeout and poll_interval
NewWaiter(t, p) ==
    [timeout |-> t, poll_interval |-> p, pc |-> "call", start |-> 0,
     wake |-> 0, run |-> NoRun, outcome |-> NoOutcome, at |-> 0]

\* no concurrent waits in progress
PairIdle ==
    /\ clock = 0
    /\ remote_run = NoRun
    /\ waiters = <<>>

\* two calls about to be made on the same run
PairInit ==
    /\ clock = 0
    /\ remote_run = ActiveRun
    /\ waiters \in [Waiters -> {NewWaiter(t, p) : t \in 0..MaxPairTimeout,
                                                 p \in 1..MaxPairPoll}]

\* start kept in one place shared by the calls on the client
PairBeginSharedStart(i) ==
    /\ waiters[i].pc = "call"
    /\ waiters' = [j \in Waiters |->
                    IF j = i
                    THEN [waiters[j] EXCEPT !.start = clock,
                                            !.pc = "fetching"]
                    ELSE [waiters[j] EXCEPT !.start = clock]]
    /\ UNCHANGED <<clock, remote_run, regVars, waitVars, callVars, dumpVars>>

\* start = time.time(), up to the await of the first get_task_run
PairBegin(i) ==
    /\ waiters[i].pc = "call"
    /\ waiters' = [waiters EXCEPT ![i].start = clock, ![i].pc = "fetching"]
    /\ UNCHANGED <<clock, remote_run, regVars, waitVars, callVars, dumpVars>>

\* get_task_run answers; the loop body runs up to its next await
PairFetched(i) ==
    /\ waiters[i].pc = "fetching"
    /\ LET w == waiters[i] IN
       waiters' =
        [waiters EXCEPT ![i] =
            IF ~remote_run.is_active
            THEN [w EXCEPT !.run = remote_run, !.outcome = remote_run,
                           !.pc = "returned", !.at = clock]
            ELSE IF DeadlinePassed(clock, w.start, w.timeout)
            THEN [w EXCEPT !.run = remote_run,
                           !.outcome = TimeoutError(RunId, w.timeout),
                           !.pc = "raised", !.at = clock]
            ELSE [w EXCEPT !.run = remote_run, !.pc = "sleeping",
                           !.wake = clock + w.poll_interval]]
    /\ UNCHANGED <<clock, remote_run, regVars, waitVars, callVars, dumpVars>>

\* asyncio.sleep(poll_interval) is over; the loop awaits the next
\* get_task_run
PairWoken(i) ==
    /\ waiters[i].pc = "sleeping"
    /\ clock >= waiters[i].wake
    /\ waiters' = [waiters EXCEPT ![i].pc = "fetching"]
    /\ UNCHANGED <<clock, remote_run, regVars, waitVars, callVars, dumpVars>>

\* time passes while some call is still waiting
PairTick ==
    /\ clock < MaxPairClock
    /\ \E i \in Waiters : waiters[i].pc \notin {"returned", "raised"}
    /\ clock' = clock + 1
    /\ UNCHANGED <<remote_run, waiters, regVars, waitVars, callVars,
                   dumpVars>>

\* the remote ends the run
RemoteEnds ==
    /\ remote_run.is_active
    /\ remote_run' \in EndedRuns
    /\ UNCHANGED <<clock, waiters, regVars, waitVars, callVars, dumpVars>>

PairNext ==
    \/ \E i \in Waiters : PairBegin(i) \/ PairFetched(i) \/ PairWoken(i)
    \/ PairTick
    \/ RemoteEnds

\* C23: a step changes the arguments, locals and outcome of at most one of
\* the two calls; a call raises TimeoutError only when the time since its
\* own start exceeds its own timeout, whatever the other call did; and a
\* call whose fetch reports the run not active returns that run, also after
\* the other call has raised TimeoutError
C23_WaitsIndependent ==
    /\ [][\A i, j \in Waiters :
            (i # j /\ waiters'[i] # waiters[i]) => waiters'[j] = waiters[j]]_vars
    /\ [][\A i \in Waiters :
            /\ <<waiters'[i].timeout, waiters'[i].poll_interval>>
                = <<waiters[i].timeout, waiters[i].poll_interval>>
            /\ waiters[i].pc # "call" => waiters'[i].start = waiters[i].start
            /\ (waiters[i].pc = "fetching" /\ waiters'[i].pc = "raised")
                => /\ clock - waiters[i].start > waiters[i].timeout
                   /\ remote_run.is_active
                   /\ waiters'[i].outcome
                        = TimeoutError(RunId, waiters[i].timeout)
            /\ (waiters[i].pc = "fetching" /\ waiters'[i] # waiters[i]
                    /\ ~remote_run.is_active)
                => /\ waiters'[i].pc = "returned"
                   /\ waiters'[i].outcome = remote_run
            /\ waiters[i].pc \in {"returned", "raised"}
                => waiters'[i] = waiters[i]]_vars

\* the call with the shorter timeout raised TimeoutError; the other, with
\* another poll interval, went on and later returned the ended run
C23_Witness ==
    /\ waiters[1].timeout < waiters[2].timeout
    /\ waiters[1].poll_interval # waiters[2].poll_interval
    /\ waiters[1].pc = "raised"
    /\ waiters[2].pc = "returned"
    /\ waiters[2].start < waiters[1].at
    /\ waiters[2].at > waiters[1].at
    /\ waiters[2].at - waiters[2].start <= waiters[2].timeout
    /\ waiters[2].outcome = remote_run

(***************************************************************************)
(* Specifications.                                                         *)
(***************************************************************************)
\* the registry serving requests, no wait in progress
Init == RegInit /\ WaitIdle /\ CallIdle /\ DumpIdle /\ PairIdle

Spec == Init /\ [][RegNext]_vars

\* one call of wait_for_task_run, the registry empty
WaitStart == WaitInit /\ RegInit /\ CallIdle /\ DumpIdle /\ PairIdle

WaitSpec == WaitStart /\ [][WaitNext]_vars

\* one call of wait_for_task_run on an event loop that keeps running the
\* coroutine and a remote that answers every fetch
LiveWaitSpec == WaitSpec /\ WF_vars(WaitNext)

\* one capability call, the registry empty and no wait in progress
CallStart == CallInit /\ RegInit /\ WaitIdle /\ DumpIdle /\ PairIdle

CallSpec == CallStart /\ [][CallNext]_vars

\* one request built and serialized, nothing else in progress
DumpStart == DumpInit /\ RegInit /\ WaitIdle /\ CallIdle /\ PairIdle

DumpSpec == DumpStart /\ [][DumpNext]_vars

\* two concurrent waits on one run, nothing else in progress
PairStart == PairInit /\ RegInit /\ WaitIdle /\ CallIdle /\ DumpIdle

PairSpec == PairStart /\ [][PairNext]_vars

=============================================================================
